---- MODULE Spec2Model ----
(***************************************************************************)
(* Trust governance and mediated communication of SubAgenticAI (the        *)
(* subagentic_ai Python package): TrustLevel, TrustProfile, the trust      *)
(* brokers, CommunicationAuthorization, SubAgent and FrontLineAgent.       *)
(*                                                                         *)
(* Trust scores are Python floats in the source.  Here a score is an       *)
(* integer number of thousandths (0.82 is 820) and a mean is the exact     *)
(* rational [num, den] of thousandths, which is how statistics.mean        *)
(* computes it before rounding to the nearest float.  The input sets below *)
(* hold no score that lies exactly on a tolerance or threshold boundary    *)
(* where float rounding could decide otherwise.                            *)
(***************************************************************************)
EXTENDS Integers, Sequences, FiniteSets, TLC

\* 1.0 in thousandths (the upper clamp of TrustLevel and agreement_tolerance).
One == 1000

\* TrustProfile.DEFAULT_MINIMUM_BROKER_AGREEMENT
DEFAULT_MINIMUM_BROKER_AGREEMENT == 2

\* The longest trust_brokers tuple a profile is constructed with.
MaxBrokers == 3

\* The longest FrontLineAgent event log. Every coordinator operation that changes
\* anything appends to it, so it also bounds the units, the grants and the
\* activity logs of a coordinator run.
MaxEvents == 6

\* The longest activity log of a SubAgent driven by its caller.
MaxActivity == 5

\* The last reading of the clock (datetime.utcnow(), in ticks).
MaxClock == 2

MaxLevelUnits == 2

-----------------------------------------------------------------------------
(* Rationals: [num, den] with den > 0. *)

Rat(n, d) == [num |-> n, den |-> d]

OfInt(x) == Rat(x, 1)

RatLeq(a, b) == a.num * b.den <= b.num * a.den

RatGeq(a, b) == RatLeq(b, a)

RatSub(a, b) == Rat(a.num * b.den - b.num * a.den, a.den * b.den)

RatAbs(a) == Rat(IF a.num < 0 THEN -a.num ELSE a.num, a.den)

RatMax(a, b) == IF RatLeq(a, b) THEN b ELSE a

RatMin(a, b) == IF RatLeq(a, b) THEN a ELSE b

\* max(0.0, min(1.0, x))
Clamp01(x) == RatMax(OfInt(0), RatMin(OfInt(One), x))

RECURSIVE SeqSum(_)
SeqSum(s) == IF s = <<>> THEN 0 ELSE Head(s) + SeqSum(Tail(s))

MeanOfFirst(evaluations) ==
    IF evaluations = <<>> THEN Rat(0, 0) ELSE Rat(Head(evaluations), 1)

\* statistics.mean of a non-empty list of scores.
Mean(evaluations) == Rat(SeqSum(evaluations), Len(evaluations))

-----------------------------------------------------------------------------
(* TrustLevel *)

\* TrustLevel(sender_trust, content_trust): __post_init__ clamps both.
TrustLevel(sender_trust, content_trust) ==
    [sender_trust |-> Clamp01(sender_trust), content_trust |-> Clamp01(content_trust)]

MeetsThresholdSwapped(self, threshold) ==
    /\ RatLeq(self.sender_trust, threshold.sender_trust)
    /\ RatLeq(self.content_trust, threshold.content_trust)

\* TrustLevel.meets_threshold
MeetsThreshold(self, threshold) ==
    /\ RatGeq(self.sender_trust, threshold.sender_trust)
    /\ RatGeq(self.content_trust, threshold.content_trust)

-----------------------------------------------------------------------------
(* TrustProfile.  A trust broker is opaque to the profile: in this part a   *)
(* broker is the three answers it gives for the message being validated,   *)
(* [flagged, sender, content].                                             *)

MinimumAgreementUnclamped(minimum_broker_agreement) == minimum_broker_agreement

\* __post_init__, the floor of minimum_broker_agreement
MinimumAgreement(minimum_broker_agreement) ==
    IF minimum_broker_agreement < DEFAULT_MINIMUM_BROKER_AGREEMENT
    THEN DEFAULT_MINIMUM_BROKER_AGREEMENT
    ELSE minimum_broker_agreement

\* TrustProfile(...): the dataclass fields after __post_init__.
TrustProfile(required_trust_threshold, trust_brokers, minimum_broker_agreement, agreement_tolerance) ==
    [required_trust_threshold |-> required_trust_threshold,
     trust_brokers |-> trust_brokers,
     minimum_broker_agreement |-> MinimumAgreement(minimum_broker_agreement),
     agreement_tolerance |-> Clamp01(OfInt(agreement_tolerance))]

WithinToleranceNoAbs(profile, evaluations) ==
    LET avg == Mean(evaluations)
    IN Cardinality({i \in 1..Len(evaluations) :
           RatLeq(RatSub(OfInt(evaluations[i]), avg), profile.agreement_tolerance)})

\* The number of evaluations within agreement_tolerance of their mean.
WithinTolerance(profile, evaluations) ==
    LET avg == Mean(evaluations)
    IN Cardinality({i \in 1..Len(evaluations) :
           RatLeq(RatAbs(RatSub(OfInt(evaluations[i]), avg)),
                  profile.agreement_tolerance)})

HasAnyWithinTolerance(profile, evaluations) ==
    IF Len(evaluations) < profile.minimum_broker_agreement
    THEN FALSE
    ELSE WithinTolerance(profile, evaluations) >= 1

\* TrustProfile._has_independent_agreement (for a non-empty list)
HasIndependentAgreement(profile, evaluations) ==
    IF Len(evaluations) < profile.minimum_broker_agreement
    THEN FALSE
    ELSE WithinTolerance(profile, evaluations) >= profile.minimum_broker_agreement

\* _has_independent_agreement reaches mean() with an empty list: StatisticsError.
AgreementRaises(profile, evaluations) ==
    /\ ~(Len(evaluations) < profile.minimum_broker_agreement)
    /\ Len(evaluations) = 0

Query(i, what) == <<i, what>>

RECURSIVE BrokerLoopFirstOnly(_, _, _, _, _)
BrokerLoopFirstOnly(brokers, i, sender_trusts, content_trusts, queries) ==
    IF i > Len(brokers)
    THEN [flagged |-> FALSE, sender_trusts |-> sender_trusts,
          content_trusts |-> content_trusts, queries |-> queries]
    ELSE IF i = 1 /\ brokers[i].flagged
         THEN [flagged |-> TRUE, sender_trusts |-> sender_trusts,
               content_trusts |-> content_trusts,
               queries |-> Append(queries, Query(i, "is_flagged"))]
         ELSE BrokerLoopFirstOnly(brokers, i + 1,
                  Append(sender_trusts, brokers[i].sender),
                  Append(content_trusts, brokers[i].content),
                  queries \o <<Query(i, "is_flagged"),
                               Query(i, "evaluate_sender_trust"),
                               Query(i, "evaluate_content_trust")>>)

\* validate_inbound, the loop over trust_brokers from broker i on: each broker is
\* asked is_flagged, and when it does not flag, for its two scores.
RECURSIVE BrokerLoop(_, _, _, _, _)
BrokerLoop(brokers, i, sender_trusts, content_trusts, queries) ==
    IF i > Len(brokers)
    THEN [flagged |-> FALSE, sender_trusts |-> sender_trusts,
          content_trusts |-> content_trusts, queries |-> queries]
    ELSE IF brokers[i].flagged
         THEN [flagged |-> TRUE, sender_trusts |-> sender_trusts,
               content_trusts |-> content_trusts,
               queries |-> Append(queries, Query(i, "is_flagged"))]
         ELSE BrokerLoop(brokers, i + 1,
                  Append(sender_trusts, brokers[i].sender),
                  Append(content_trusts, brokers[i].content),
                  queries \o <<Query(i, "is_flagged"),
                               Query(i, "evaluate_sender_trust"),
                               Query(i, "evaluate_content_trust")>>)

Outcome(result, raised, queries) ==
    [result |-> result, raised |-> raised, queries |-> queries]

\* TrustProfile.validate_inbound over the brokers' answers: what it returns,
\* whether it raises instead, and the broker calls it makes, in order.
ValidateInboundAnswers(profile, brokers) ==
    IF Len(brokers) < profile.minimum_broker_agreement
    THEN Outcome(FALSE, FALSE, <<>>)
    ELSE LET loop == BrokerLoop(brokers, 1, <<>>, <<>>, <<>>)
         IN IF loop.flagged
            THEN Outcome(FALSE, FALSE, loop.queries)
            ELSE IF AgreementRaises(profile, loop.sender_trusts)
            THEN Outcome(FALSE, TRUE, loop.queries)
            ELSE IF ~HasIndependentAgreement(profile, loop.sender_trusts)
            THEN Outcome(FALSE, FALSE, loop.queries)
            ELSE IF ~HasIndependentAgreement(profile, loop.content_trusts)
            THEN Outcome(FALSE, FALSE, loop.queries)
            ELSE Outcome(
                     MeetsThreshold(
                         TrustLevel(Mean(loop.sender_trusts), Mean(loop.content_trusts)),
                         profile.required_trust_threshold),
                     FALSE, loop.queries)

-----------------------------------------------------------------------------
(* SimpleTrustBroker.  A message content is one of a few texts; Contains   *)
(* says which markers `marker in content.lower()` finds in it.              *)

\* The markers the source looks for that occur in a text.
Markers(text) ==
    CASE text = "data" -> {"data"}
      [] text = "suspicious data" -> {"suspicious", "data"}
      [] text = "malicious data" -> {"malicious", "data"}
      [] text = "verified data" -> {"verified", "data"}
      [] text = "analyze data" -> {"analyze", "data"}
      [] OTHER -> {}

\* marker in text.lower()
Contains(text, marker) == marker \in Markers(text)

\* SimpleTrustBroker(broker_id, name, baseline_trust), nothing flagged, no reputation set.
SimpleTrustBroker(baseline_trust) ==
    [baseline_trust |-> baseline_trust, sender_reputations |-> {}, flagged_senders |-> {}]

\* SimpleTrustBroker.evaluate_sender_trust: sender_reputations holds <<sender, score>> pairs.
EvaluateSenderTrust(broker, sender_id) ==
    IF \E r \in broker.sender_reputations : r[1] = sender_id
    THEN (CHOOSE r \in broker.sender_reputations : r[1] = sender_id)[2]
    ELSE broker.baseline_trust

\* SimpleTrustBroker.evaluate_content_trust (the baselines used keep the products whole).
EvaluateContentTrust(broker, content) ==
    LET penalised == IF Contains(content, "malicious") THEN (broker.baseline_trust * 3) \div 10
                     ELSE IF Contains(content, "suspicious") THEN (broker.baseline_trust * 6) \div 10
                     ELSE broker.baseline_trust
        bonused == IF Contains(content, "verified")
                   THEN (IF (penalised * 12) \div 10 > One THEN One ELSE (penalised * 12) \div 10)
                   ELSE penalised
    IN IF bonused < 0 THEN 0 ELSE IF bonused > One THEN One ELSE bonused

\* SimpleTrustBroker.is_flagged
IsFlagged(broker, sender_id, content) ==
    \/ sender_id \in broker.flagged_senders
    \/ Contains(content, "malicious")

\* What the brokers of a profile answer for (sender_id, content).
AnswersFor(brokers, sender_id, content) ==
    [i \in 1..Len(brokers) |->
        [flagged |-> IsFlagged(brokers[i], sender_id, content),
         sender |-> EvaluateSenderTrust(brokers[i], sender_id),
         content |-> EvaluateContentTrust(brokers[i], content)]]

\* await trust_profile.validate_inbound(sender_id, content), its return value.
ValidateInboundFor(trust_profile, sender_id, content) ==
    ValidateInboundAnswers(trust_profile,
                           AnswersFor(trust_profile.trust_brokers, sender_id, content)).result

\* The default profile of the coordinator: three brokers, tolerance 0.15,
\* threshold (0.6, 0.6), as demo.py configures it.
DefaultTrustProfile ==
    [security_level |-> "INTERNAL"] @@
    TrustProfile(TrustLevel(OfInt(600), OfInt(600)),
                 <<SimpleTrustBroker(700), SimpleTrustBroker(750), SimpleTrustBroker(800)>>,
                 2, 150)

-----------------------------------------------------------------------------
(* CommunicationAuthorization.  An Optional value is None or Some(x); a    *)
(* timedelta and a datetime are numbers of clock ticks.  created_at and    *)
(* allowed_data_scopes are stored by the source and never read by it; a    *)
(* grant keeps instead the ttl it was created with, which the expiry       *)
(* properties are stated over.                                             *)

None == <<>>

Some(x) == <<x>>

Val(opt) == opt[1]

\* `if ttl`: a timedelta is truthy unless it is zero.
TtlTruthy(ttl) == ttl # None /\ Val(ttl) # 0

\* CommunicationAuthorization.create at clock reading t.
CreateAuthorization(from_agent_id, to_agent_id, is_bidirectional, ttl, t) ==
    [from_agent_id |-> from_agent_id,
     to_agent_id |-> to_agent_id,
     is_bidirectional |-> is_bidirectional,
     expires_at |-> IF TtlTruthy(ttl) THEN Some(t + Val(ttl)) ELSE None,
     ttl |-> ttl]

\* CommunicationAuthorization.is_expired at clock reading t.
IsExpiredNever(auth, t) == FALSE

\* CommunicationAuthorization.is_expired at clock reading t.
IsExpired(auth, t) == auth.expires_at # None /\ t > Val(auth.expires_at)

IsAuthorizedIgnoringDirection(auth, from_id, to_id, t) ==
    IF IsExpired(auth, t) THEN FALSE
    ELSE IF auth.from_agent_id = from_id /\ auth.to_agent_id = to_id THEN TRUE
    ELSE IF auth.from_agent_id = to_id /\ auth.to_agent_id = from_id THEN TRUE
    ELSE FALSE

\* CommunicationAuthorization.is_authorized at clock reading t.
IsAuthorized(auth, from_id, to_id, t) ==
    IF IsExpired(auth, t) THEN FALSE
    ELSE IF auth.from_agent_id = from_id /\ auth.to_agent_id = to_id THEN TRUE
    ELSE IF auth.is_bidirectional /\ auth.from_agent_id = to_id /\ auth.to_agent_id = from_id
    THEN TRUE
    ELSE FALSE

-----------------------------------------------------------------------------
(* SubAgent.  A unit is a record; an operation is an operator from the unit *)
(* to the unit after it, with its return value where it has one.  A log    *)
(* entry is the text of the message without its timestamp and identifiers. *)
(* _local_state is a set of <<key, value>> pairs with distinct keys; the   *)
(* key received_<timestamp> is the clock reading.                          *)

LogActivityKeepLatest(sa, activity) == [sa EXCEPT !.activity_log = <<activity>>]

\* SubAgent._log_activity
LogActivity(sa, activity) == [sa EXCEPT !.activity_log = Append(@, activity)]

\* SubAgent.__init__
SubAgent(agent_id, domain, trust_profile) ==
    [id |-> agent_id, domain |-> domain, trust_profile |-> trust_profile,
     status |-> "CREATED", local_state |-> {},
     activity_log |-> <<"SubAgent created">>]

StartMissionRaisesWhenRetired(sa) == sa.status = "RETIRED"

\* start_mission raises RuntimeError
StartMissionRaises(sa) == sa.status # "CREATED"

StartMissionPaused(sa) == LogActivity([sa EXCEPT !.status = "PAUSED"], "Mission started")

\* SubAgent.start_mission, when it does not raise
StartMission(sa) == LogActivity([sa EXCEPT !.status = "ACTIVE"], "Mission started")

ProcessTaskRaisesWhenRetired(sa) == sa.status = "RETIRED"

\* process_task raises RuntimeError
ProcessTaskRaises(sa) == sa.status # "ACTIVE"

\* SubAgent.process_task, when it does not raise
ProcessTask(sa, task) ==
    LogActivity(LogActivity(sa, "Processing task"), "Task completed")

\* _local_state[key] = value
DictSet(dict, key, value) == {p \in dict : p[1] # key} \cup {<<key, value>>}

ReceiveInformationUnguarded(sa, sender_id, information, t) ==
    IF ValidateInboundFor(sa.trust_profile, sender_id, information)
    THEN [sa |-> LogActivity([sa EXCEPT !.local_state = DictSet(@, t, information)],
                             "Accepted information"),
          ret |-> TRUE]
    ELSE [sa |-> LogActivity(sa, "Rejected information - trust validation failed"),
          ret |-> FALSE]

\* The broker calls `await self.trust_profile.validate_inbound(sender_id, information)`
\* makes, in order.
ValidateInboundQueries(trust_profile, sender_id, content) ==
    ValidateInboundAnswers(trust_profile,
                           AnswersFor(trust_profile.trust_brokers, sender_id, content)).queries

ReceiveInformationValidatesFirst(sa, sender_id, information, t) ==
    LET valid == ValidateInboundFor(sa.trust_profile, sender_id, information)
        queries == ValidateInboundQueries(sa.trust_profile, sender_id, information)
    IN IF sa.status # "ACTIVE"
       THEN [sa |-> LogActivity(sa, "Rejected inbound information - status"),
             ret |-> FALSE, queries |-> queries]
       ELSE IF valid
       THEN [sa |-> LogActivity([sa EXCEPT !.local_state = DictSet(@, t, information)],
                                "Accepted information"),
             ret |-> TRUE, queries |-> queries]
       ELSE [sa |-> LogActivity(sa, "Rejected information - trust validation failed"),
             ret |-> FALSE, queries |-> queries]

ReceiveInformationStoresFirst(sa, sender_id, information, t) ==
    IF sa.status # "ACTIVE"
    THEN [sa |-> LogActivity(sa, "Rejected inbound information - status"),
          ret |-> FALSE, queries |-> <<>>]
    ELSE IF ValidateInboundFor(sa.trust_profile, sender_id, information)
    THEN [sa |-> LogActivity([sa EXCEPT !.local_state = DictSet(@, t, information)],
                             "Accepted information"),
          ret |-> TRUE,
          queries |-> ValidateInboundQueries(sa.trust_profile, sender_id, information)]
    ELSE [sa |-> LogActivity([sa EXCEPT !.local_state = DictSet(@, t, information)],
                             "Rejected information - trust validation failed"),
          ret |-> FALSE,
          queries |-> ValidateInboundQueries(sa.trust_profile, sender_id, information)]

\* SubAgent.receive_information at clock reading t: the unit after it, the value
\* returned and the broker calls made on the way.
ReceiveInformation(sa, sender_id, information, t) ==
    IF sa.status # "ACTIVE"
    THEN [sa |-> LogActivity(sa, "Rejected inbound information - status"),
          ret |-> FALSE, queries |-> <<>>]
    ELSE IF ValidateInboundFor(sa.trust_profile, sender_id, information)
    THEN [sa |-> LogActivity([sa EXCEPT !.local_state = DictSet(@, t, information)],
                             "Accepted information"),
          ret |-> TRUE,
          queries |-> ValidateInboundQueries(sa.trust_profile, sender_id, information)]
    ELSE [sa |-> LogActivity(sa, "Rejected information - trust validation failed"),
          ret |-> FALSE,
          queries |-> ValidateInboundQueries(sa.trust_profile, sender_id, information)]

SendInformationUnguarded(sa, recipient_id, information) ==
    [sa |-> LogActivity(sa, "Sending information"), ret |-> TRUE]

SendInformationSilent(sa, recipient_id, information) ==
    IF sa.status # "ACTIVE"
    THEN [sa |-> LogActivity(sa, "Cannot send information - status"), ret |-> FALSE]
    ELSE [sa |-> sa, ret |-> TRUE]

SendInformationGated(sa, recipient_id, information) ==
    IF sa.status # "ACTIVE"
    THEN [sa |-> LogActivity(sa, "Cannot send information - status"), ret |-> FALSE]
    ELSE IF sa.trust_profile.security_level \in {"SECRET", "TOP_SECRET"}
    THEN [sa |-> LogActivity(sa, "Cannot send information - security level"), ret |-> FALSE]
    ELSE [sa |-> LogActivity(sa, "Sending information"), ret |-> TRUE]

\* SubAgent.send_information: the unit after it and the value returned
SendInformation(sa, recipient_id, information) ==
    IF sa.status # "ACTIVE"
    THEN [sa |-> LogActivity(sa, "Cannot send information - status"), ret |-> FALSE]
    ELSE [sa |-> LogActivity(sa, "Sending information"), ret |-> TRUE]

CompleteMissionRaisesWhenRetired(sa) == sa.status = "RETIRED"

\* complete_mission raises RuntimeError
CompleteMissionRaises(sa) == sa.status \notin {"ACTIVE", "PAUSED"}

CompleteMissionThenCleanUp(sa) ==
    [LogActivity([sa EXCEPT !.status = "RETIRED"], "Mission completed")
         EXCEPT !.local_state = {}]

\* SubAgent.complete_mission, when it does not raise
CompleteMission(sa) == LogActivity([sa EXCEPT !.status = "COMPLETED"], "Mission completed")

RetireAlwaysLogs(sa) ==
    [LogActivity([sa EXCEPT !.status = "RETIRED"], "SubAgent retired")
         EXCEPT !.local_state = {}]

\* SubAgent.retire
Retire(sa) ==
    IF sa.status = "RETIRED" THEN sa
    ELSE [LogActivity([sa EXCEPT !.status = "RETIRED"], "SubAgent retired")
              EXCEPT !.local_state = {}]

\* FrontLineAgent.classify_domain, the label returned
ClassifyDomain(user_intent) ==
    IF Contains(user_intent, "data") \/ Contains(user_intent, "analyze") THEN "DataAnalysis"
    ELSE IF Contains(user_intent, "code") \/ Contains(user_intent, "program") THEN "CodeGeneration"
    ELSE IF Contains(user_intent, "security") \/ Contains(user_intent, "audit") THEN "SecurityAudit"
    ELSE IF Contains(user_intent, "research") \/ Contains(user_intent, "find") THEN "Research"
    ELSE "General"

-----------------------------------------------------------------------------
VARIABLES
    ctor_args,      \* the arguments the profile under validation was constructed with
    profile,        \* that TrustProfile, or NoProfile
    validation,     \* the outcome of validate_inbound on it, or NoValidation
    now,            \* the clock: what datetime.utcnow() reads
    agents,         \* the SubAgent objects constructed so far
    active_sub_agents,              \* FrontLineAgent._active_sub_agents: id -> object
    communication_authorizations,   \* FrontLineAgent._communication_authorizations
    event_log,      \* FrontLineAgent._event_log
    retired_ids,    \* history: the ids retire_sub_agent has retired
    last,           \* history: the last call made, its arguments and what it returned
    suspended,      \* the coordinator call waiting at an await for a broker, or None
    returned        \* the collection an accessor last returned to a caller, or None

\* What an operation that runs to completion on the coordinator or on a unit
\* leaves alone: the profile under validation, the call waiting for a broker and
\* the collection a caller holds.
trust_vars == <<ctor_args, profile, validation, suspended, returned>>

vars == <<ctor_args, profile, validation, now, agents, active_sub_agents,
          communication_authorizations, event_log, retired_ids, last, suspended,
          returned>>

NoProfile == [constructed |-> FALSE]

NoValidation == [called |-> FALSE]

\* A call: its name, up to two identifier arguments, and what it returned ("True",
\* "False", "None", "unit", "result") or "raised".
Call(op, a, b, ret) == [op |-> op, a |-> a, b |-> b, ret |-> ret]

Bool(b) == IF b THEN "True" ELSE "False"

\* What a broker may answer for one message; scores outside [0, 1] included. The
\* scores of a broker that flags are never requested: two pairs stand for them.
BrokerAnswers ==
    [flagged : {FALSE}, sender : {-200, 500, 900}, content : {500, 700}]
    \cup {[flagged |-> TRUE, sender |-> 900, content |-> 700],
          [flagged |-> TRUE, sender |-> -200, content |-> 500]}

\* The brokers of the two worked examples of the design.
ConvergentBrokers ==
    <<[flagged |-> FALSE, sender |-> 800, content |-> 750],
      [flagged |-> FALSE, sender |-> 820, content |-> 770],
      [flagged |-> FALSE, sender |-> 790, content |-> 760]>>

DivergentBrokers ==
    <<[flagged |-> FALSE, sender |-> 900, content |-> 750],
      [flagged |-> FALSE, sender |-> 100, content |-> 770],
      [flagged |-> FALSE, sender |-> 500, content |-> 760]>>

\* Three brokers that agree on a sender score under the threshold of demo.py.
BelowThresholdBrokers ==
    <<[flagged |-> FALSE, sender |-> 500, content |-> 700],
      [flagged |-> FALSE, sender |-> 500, content |-> 700],
      [flagged |-> FALSE, sender |-> 500, content |-> 700]>>

BrokerTuples == UNION {[1..n -> BrokerAnswers] : n \in 0..MaxBrokers}

GenericArgs ==
    [trust_brokers : BrokerTuples,
     minimum_broker_agreement : {0, 1, 2, 3},
     agreement_tolerance : {0, 150, 1500},
     sender_threshold : {-100, 500, 900},
     content_threshold : {600}]

ExampleArgs ==
    [trust_brokers : {ConvergentBrokers, DivergentBrokers},
     minimum_broker_agreement : {2},
     agreement_tolerance : {100},
     sender_threshold : {400, 600},
     content_threshold : {600}]

\* The configuration of demo.py: minimum 2, tolerance 0.15, threshold (0.6, 0.6).
DemoArgs ==
    [trust_brokers : {BelowThresholdBrokers},
     minimum_broker_agreement : {2},
     agreement_tolerance : {150},
     sender_threshold : {600},
     content_threshold : {600}]

TrustInit ==
    /\ ctor_args = NoProfile
    /\ profile = NoProfile
    /\ validation = NoValidation
    /\ now = 0
    /\ agents = <<>>
    /\ active_sub_agents = {}
    /\ communication_authorizations = <<>>
    /\ event_log = <<>>
    /\ retired_ids = {}
    /\ last = Call("TrustProfile", 0, 0, "None")
    /\ suspended = None
    /\ returned = None

\* profile = TrustProfile(security_level, TrustLevel(s, c), brokers, minimum, tolerance)
NewTrustProfile ==
    /\ ~profile.constructed
    /\ \E args \in GenericArgs \cup ExampleArgs \cup DemoArgs :
          /\ ctor_args' = args
          /\ profile' = [constructed |-> TRUE] @@
                 TrustProfile(TrustLevel(OfInt(args.sender_threshold),
                                         OfInt(args.content_threshold)),
                              args.trust_brokers, args.minimum_broker_agreement,
                              args.agreement_tolerance)
    /\ UNCHANGED validation
    /\ UNCHANGED <<now, agents, active_sub_agents, communication_authorizations,
                   event_log, retired_ids, last, suspended, returned>>

\* await profile.validate_inbound(sender_id, content)
ValidateInbound ==
    /\ profile.constructed
    /\ ~validation.called
    /\ validation' = [called |-> TRUE] @@
           ValidateInboundAnswers(profile, profile.trust_brokers)
    /\ UNCHANGED <<ctor_args, profile>>
    /\ UNCHANGED <<now, agents, active_sub_agents, communication_authorizations,
                   event_log, retired_ids, last, suspended, returned>>

TrustNext ==
    \/ NewTrustProfile
    \/ ValidateInbound

SpecTrust == TrustInit /\ [][TrustNext]_vars

-----------------------------------------------------------------------------
(* FrontLineAgent and the SubAgent objects of a run.  Every operation is   *)
(* one step: the SubAgent and SimpleTrustBroker coroutines a coordinator   *)
(* operation awaits never suspend.  A unit is known by its position in     *)
(* agents (the object) and by its id; uuid4 is taken never to repeat, so   *)
(* the two are the same number here.                                      *)

fla_vars == <<now, agents, active_sub_agents, communication_authorizations,
              event_log, retired_ids, last>>

\* A dict as a set of <<key, value>> pairs.
DictHas(dict, key) == \E p \in dict : p[1] = key

DictGet(dict, key) == (CHOOSE p \in dict : p[1] = key)[2]

DictDel(dict, key) == {p \in dict : p[1] # key}

\* The identifiers a coordinator call names: those of the units made so far
\* (registered or retired since).
KnownIds == 1..Len(agents)

\* The names a caller of a unit gives as sender or recipient: a unit's, or 0, no unit's.
PeerIds == 0..Len(agents)

\* f"SA-{domain}-{uuid4().hex}"
FreshId == Len(agents) + 1

Domains == {"Research"}

UserIntents == {"analyze data"}

Information == {"data", "suspicious data"}

Ttls == {None, Some(-1), Some(0), Some(1)}

\* FrontLineAgent.__init__
Init ==
    /\ now = 0
    /\ agents = <<>>
    /\ active_sub_agents = {}
    /\ communication_authorizations = <<>>
    /\ event_log = <<"FLA created">>
    /\ retired_ids = {}
    /\ last = Call("__init__", 0, 0, "None")
    /\ ctor_args = NoProfile
    /\ profile = NoProfile
    /\ validation = NoValidation
    /\ suspended = None
    /\ returned = None

\* Time passes between two calls.
Tick ==
    /\ now < MaxClock
    /\ now' = now + 1
    /\ last' = Call("tick", 0, 0, "None")
    /\ UNCHANGED <<agents, active_sub_agents, communication_authorizations, event_log,
                   retired_ids, trust_vars>>

\* FrontLineAgent.create_sub_agent(domain, trust_profile) with agent_id the id generated
CreateSubAgent(agent_id, domain, trust_profile) ==
    /\ Len(event_log) < MaxEvents
    /\ LET tp == IF trust_profile = None THEN DefaultTrustProfile ELSE Val(trust_profile)
           sub_agent == SubAgent(agent_id, domain, tp)
       IN /\ ~StartMissionRaises(sub_agent)
          /\ agents' = Append(agents, StartMission(sub_agent))
          /\ active_sub_agents' = DictSet(active_sub_agents, agent_id, Len(agents) + 1)
    /\ event_log' = Append(event_log, "Created and started SubAgent")
    /\ last' = Call("create_sub_agent", agent_id, 0, "unit")
    /\ UNCHANGED <<now, communication_authorizations, retired_ids, trust_vars>>

\* FrontLineAgent.reactivate_sub_agent(agent_id)
ReactivateSubAgent(agent_id) ==
    /\ Len(event_log) < MaxEvents
    /\ event_log' = Append(event_log,
           IF DictHas(active_sub_agents, agent_id)
           THEN "Reactivated SubAgent"
           ELSE "Failed to reactivate SubAgent - not found")
    /\ last' = Call("reactivate_sub_agent", agent_id, 0,
                    IF DictHas(active_sub_agents, agent_id) THEN "unit" ELSE "None")
    /\ UNCHANGED <<now, agents, active_sub_agents, communication_authorizations,
                   retired_ids, trust_vars>>

\* FrontLineAgent.authorize_communication(from_agent_id, to_agent_id, is_bidirectional, ttl)
AuthorizeCommunication(from_agent_id, to_agent_id, is_bidirectional, ttl) ==
    /\ Len(event_log) < MaxEvents
    /\ communication_authorizations' =
           Append(communication_authorizations,
                  CreateAuthorization(from_agent_id, to_agent_id, is_bidirectional, ttl, now))
    /\ event_log' = Append(event_log, "Authorized communication")
    /\ last' = Call("authorize_communication", from_agent_id, to_agent_id, "None")
    /\ UNCHANGED <<now, agents, active_sub_agents, retired_ids, trust_vars>>

SomeAuthorizationExpiredToo(auths, from_agent_id, to_agent_id, t) ==
    \E i \in 1..Len(auths) :
        auths[i].from_agent_id = from_agent_id /\ auths[i].to_agent_id = to_agent_id

SomeAuthorizationOldestOfPair(auths, from_agent_id, to_agent_id, t) ==
    \E i \in 1..Len(auths) :
        /\ IsAuthorized(auths[i], from_agent_id, to_agent_id, t)
        /\ \A j \in 1..(i - 1) :
               {auths[j].from_agent_id, auths[j].to_agent_id} # {from_agent_id, to_agent_id}

\* next((auth for auth in ... if auth.is_authorized(from, to)), None) is not None
SomeAuthorization(auths, from_agent_id, to_agent_id, t) ==
    \E i \in 1..Len(auths) : IsAuthorized(auths[i], from_agent_id, to_agent_id, t)

\* FrontLineAgent.mediate_communication(from_agent_id, to_agent_id, information)
MediateCommunication(from_agent_id, to_agent_id, information) ==
    /\ Len(event_log) < MaxEvents
    /\ IF ~SomeAuthorization(communication_authorizations, from_agent_id, to_agent_id, now)
       THEN /\ event_log' = Append(event_log, "Communication blocked - not authorized")
            /\ last' = Call("mediate_communication", from_agent_id, to_agent_id, "False")
            /\ UNCHANGED agents
       ELSE IF ~DictHas(active_sub_agents, from_agent_id)
       THEN /\ event_log' = Append(event_log, "Communication failed: sender not found")
            /\ last' = Call("mediate_communication", from_agent_id, to_agent_id, "False")
            /\ UNCHANGED agents
       ELSE IF ~DictHas(active_sub_agents, to_agent_id)
       THEN /\ event_log' = Append(event_log, "Communication failed: receiver not found")
            /\ last' = Call("mediate_communication", from_agent_id, to_agent_id, "False")
            /\ UNCHANGED agents
       ELSE LET sender == DictGet(active_sub_agents, from_agent_id)
                receiver == DictGet(active_sub_agents, to_agent_id)
                sent == SendInformation(agents[sender], to_agent_id, information)
                after_send == [agents EXCEPT ![sender] = sent.sa]
                received == ReceiveInformation(after_send[receiver], from_agent_id,
                                               information, now)
            IN IF ~sent.ret
               THEN /\ agents' = after_send
                    /\ event_log' = Append(event_log,
                           "Communication failed: sender rejected outbound")
                    /\ last' = Call("mediate_communication", from_agent_id, to_agent_id, "False")
               ELSE /\ agents' = [after_send EXCEPT ![receiver] = received.sa]
                    /\ event_log' = Append(event_log,
                           IF received.ret
                           THEN "Communication mediated - success: True"
                           ELSE "Communication mediated - success: False")
                    /\ last' = Call("mediate_communication", from_agent_id, to_agent_id,
                                    Bool(received.ret))
    /\ UNCHANGED <<now, active_sub_agents, communication_authorizations, retired_ids,
                   trust_vars>>

PurgeAuthorizationsFrom(auths, agent_id) ==
    SelectSeq(auths, LAMBDA auth : auth.from_agent_id # agent_id)

\* The grants retire_sub_agent keeps: those naming agent_id at neither end.
PurgeAuthorizations(auths, agent_id) ==
    SelectSeq(auths, LAMBDA auth : auth.from_agent_id # agent_id /\ auth.to_agent_id # agent_id)

RetireSubAgentPurgeOnly(agent_id) ==
    /\ IF DictHas(active_sub_agents, agent_id)
       THEN /\ Len(event_log) < MaxEvents
            /\ communication_authorizations' =
                   PurgeAuthorizations(communication_authorizations, agent_id)
            /\ event_log' = Append(event_log, "Retired SubAgent")
            /\ retired_ids' = retired_ids \cup {agent_id}
       ELSE UNCHANGED <<communication_authorizations, event_log, retired_ids>>
    /\ last' = Call("retire_sub_agent", agent_id, 0, "None")
    /\ UNCHANGED <<now, agents, active_sub_agents, trust_vars>>

\* FrontLineAgent.retire_sub_agent(agent_id); retired_ids records the ids it has retired
RetireSubAgent(agent_id) ==
    /\ IF DictHas(active_sub_agents, agent_id)
       THEN LET agent == DictGet(active_sub_agents, agent_id)
            IN /\ Len(event_log) < MaxEvents
               /\ agents' = [agents EXCEPT ![agent] = Retire(@)]
               /\ active_sub_agents' = DictDel(active_sub_agents, agent_id)
               /\ communication_authorizations' =
                      PurgeAuthorizations(communication_authorizations, agent_id)
               /\ event_log' = Append(event_log, "Retired SubAgent")
               /\ retired_ids' = retired_ids \cup {agent_id}
       ELSE UNCHANGED <<agents, active_sub_agents, communication_authorizations,
                        event_log, retired_ids>>
    /\ last' = Call("retire_sub_agent", agent_id, 0, "None")
    /\ UNCHANGED <<now, trust_vars>>

\* FrontLineAgent.process_user_task(user_intent, task_details) with agent_id the id generated
ProcessUserTask(agent_id, user_intent, task_details) ==
    /\ Len(event_log) + 3 <= MaxEvents
    /\ LET domain == ClassifyDomain(user_intent)
           sub_agent == StartMission(SubAgent(agent_id, domain, DefaultTrustProfile))
           log3 == event_log \o <<"Processing user task", "Classifying domain",
                                  "Created and started SubAgent">>
       IN /\ active_sub_agents' = DictSet(active_sub_agents, agent_id, Len(agents) + 1)
          /\ IF ProcessTaskRaises(sub_agent)
             THEN /\ agents' = Append(agents, sub_agent)
                  /\ event_log' = Append(log3, "Task processing failed")
                  /\ last' = Call("process_user_task", agent_id, 0, "raised")
             ELSE IF CompleteMissionRaises(ProcessTask(sub_agent, task_details))
             THEN /\ agents' = Append(agents, ProcessTask(sub_agent, task_details))
                  /\ event_log' = Append(log3, "Task processing failed")
                  /\ last' = Call("process_user_task", agent_id, 0, "raised")
             ELSE /\ agents' = Append(agents,
                                      CompleteMission(ProcessTask(sub_agent, task_details)))
                  /\ event_log' = log3
                  /\ last' = Call("process_user_task", agent_id, 0, "result")
    /\ UNCHANGED <<now, communication_authorizations, retired_ids, trust_vars>>

\* A caller constructs a SubAgent of its own: SubAgent(agent_id, domain, trust_profile)
NewSubAgent(agent_id, domain) ==
    /\ agents = <<>>
    /\ agents' = Append(agents, SubAgent(agent_id, domain, DefaultTrustProfile))
    /\ last' = Call("SubAgent", agent_id, 0, "unit")
    /\ UNCHANGED <<now, active_sub_agents, communication_authorizations, event_log,
                   retired_ids, trust_vars>>

UnitFrame == UNCHANGED <<now, active_sub_agents, communication_authorizations, event_log,
                         retired_ids, trust_vars>>

\* A caller holding unit u calls await u.start_mission()
CallStartMission(u) ==
    /\ Len(agents[u].activity_log) < MaxActivity
    /\ IF StartMissionRaises(agents[u])
       THEN /\ last' = Call("start_mission", u, 0, "raised")
            /\ UNCHANGED agents
       ELSE /\ last' = Call("start_mission", u, 0, "None")
            /\ agents' = [agents EXCEPT ![u] = StartMission(@)]
    /\ UnitFrame

\* A caller holding unit u calls await u.process_task(task)
CallProcessTask(u, task) ==
    /\ Len(agents[u].activity_log) + 2 <= MaxActivity
    /\ IF ProcessTaskRaises(agents[u])
       THEN /\ last' = Call("process_task", u, 0, "raised")
            /\ UNCHANGED agents
       ELSE /\ last' = Call("process_task", u, 0, "result")
            /\ agents' = [agents EXCEPT ![u] = ProcessTask(@, task)]
    /\ UnitFrame

\* A caller holding unit u calls await u.receive_information(sender_id, information)
CallReceiveInformation(u, sender_id, information) ==
    /\ Len(agents[u].activity_log) < MaxActivity
    /\ LET received == ReceiveInformation(agents[u], sender_id, information, now)
       IN /\ last' = Call("receive_information", u, sender_id, Bool(received.ret))
          /\ agents' = [agents EXCEPT ![u] = received.sa]
    /\ UnitFrame

\* A caller holding unit u calls await u.send_information(recipient_id, information)
CallSendInformation(u, recipient_id, information) ==
    /\ Len(agents[u].activity_log) < MaxActivity
    /\ LET sent == SendInformation(agents[u], recipient_id, information)
       IN /\ last' = Call("send_information", u, recipient_id, Bool(sent.ret))
          /\ agents' = [agents EXCEPT ![u] = sent.sa]
    /\ UnitFrame

\* A caller holding unit u calls await u.complete_mission()
CallCompleteMission(u) ==
    /\ Len(agents[u].activity_log) < MaxActivity
    /\ IF CompleteMissionRaises(agents[u])
       THEN /\ last' = Call("complete_mission", u, 0, "raised")
            /\ UNCHANGED agents
       ELSE /\ last' = Call("complete_mission", u, 0, "None")
            /\ agents' = [agents EXCEPT ![u] = CompleteMission(@)]
    /\ UnitFrame

\* A caller holding unit u calls await u.retire()
CallRetire(u) ==
    /\ Len(agents[u].activity_log) < MaxActivity
    /\ last' = Call("retire", u, 0, "None")
    /\ agents' = [agents EXCEPT ![u] = Retire(@)]
    /\ UnitFrame

Next ==
    \/ Tick
    \/ \E domain \in Domains : CreateSubAgent(FreshId, domain, None)
    \/ \E f \in KnownIds : \E t \in KnownIds \ {f}, bidi \in BOOLEAN, ttl \in Ttls :
           AuthorizeCommunication(f, t, bidi, ttl)
    \/ \E f \in KnownIds : \E t \in KnownIds \ {f}, information \in Information :
           MediateCommunication(f, t, information)
    \/ \E agent_id \in KnownIds : RetireSubAgent(agent_id)
    \/ \E intent \in UserIntents : ProcessUserTask(FreshId, intent, "task")

Spec == Init /\ [][Next]_vars

\* One SubAgent in the hands of its caller.
UnitNext ==
    \/ Tick
    \/ \E domain \in Domains : NewSubAgent(FreshId, domain)
    \/ \E u \in 1..Len(agents) : CallStartMission(u)
    \/ \E u \in 1..Len(agents) : CallProcessTask(u, "task")
    \/ \E u \in 1..Len(agents), sender_id \in PeerIds, information \in Information :
           CallReceiveInformation(u, sender_id, information)
    \/ \E u \in 1..Len(agents), recipient_id \in PeerIds, information \in Information :
           CallSendInformation(u, recipient_id, information)
    \/ \E u \in 1..Len(agents) : CallCompleteMission(u)
    \/ \E u \in 1..Len(agents) : CallRetire(u)

SpecUnit == Init /\ [][UnitNext]_vars

\* The grants of the holder runs: without expiry, or expired when made.
HolderTtls == {None, Some(-1)}

\* The coordinator, and the callers that hold the units create_sub_agent returned:
\* they end a unit's mission or retire it themselves, behind the coordinator's back.
HolderNext ==
    \/ \E domain \in Domains : CreateSubAgent(FreshId, domain, None)
    \/ \E f \in KnownIds : \E t \in KnownIds \ {f}, bidi \in BOOLEAN, ttl \in HolderTtls :
           AuthorizeCommunication(f, t, bidi, ttl)
    \/ \E f \in KnownIds : \E t \in KnownIds \ {f}, information \in Information :
           MediateCommunication(f, t, information)
    \/ \E agent_id \in KnownIds : RetireSubAgent(agent_id)
    \/ \E u \in 1..Len(agents) : ~CompleteMissionRaises(agents[u]) /\ CallCompleteMission(u)
    \/ \E u \in 1..Len(agents) : agents[u].status # "RETIRED" /\ CallRetire(u)

SpecHolder == Init /\ [][HolderNext]_vars

\* What uuid4().hex may be: any value, one it has been before included.
Uuids == {1, 2}

\* The coordinator when the generated ids may repeat.
CollideNext ==
    \/ \E agent_id \in Uuids, domain \in Domains : CreateSubAgent(agent_id, domain, None)
    \/ \E f \in Uuids : \E t \in Uuids \ {f} : AuthorizeCommunication(f, t, FALSE, None)
    \/ \E f \in Uuids : \E t \in Uuids \ {f}, information \in Information :
           MediateCommunication(f, t, information)
    \/ \E agent_id \in Uuids : RetireSubAgent(agent_id)

SpecCollide == Init /\ [][CollideNext]_vars

\* mediate_communication reaches receive_information's await of validate_inbound,
\* and validate_inbound its first await of a broker.
ReachesBroker(from_agent_id, to_agent_id, information) ==
    /\ SomeAuthorization(communication_authorizations, from_agent_id, to_agent_id, now)
    /\ DictHas(active_sub_agents, from_agent_id)
    /\ DictHas(active_sub_agents, to_agent_id)
    /\ SendInformation(agents[DictGet(active_sub_agents, from_agent_id)],
                       to_agent_id, information).ret
    /\ LET receiver == agents[DictGet(active_sub_agents, to_agent_id)]
       IN /\ receiver.status = "ACTIVE"
          /\ Len(receiver.trust_profile.trust_brokers)
                 >= receiver.trust_profile.minimum_broker_agreement
          /\ Len(receiver.trust_profile.trust_brokers) > 0

\* mediate_communication up to the point where a broker's coroutine suspends: the
\* sender has sent, the receiver (the object the call holds) has passed its status check.
BeginMediate(from_agent_id, to_agent_id, information) ==
    /\ suspended = None
    /\ Len(event_log) < MaxEvents
    /\ ReachesBroker(from_agent_id, to_agent_id, information)
    /\ LET sender == DictGet(active_sub_agents, from_agent_id)
           receiver == DictGet(active_sub_agents, to_agent_id)
       IN /\ agents' = [agents EXCEPT
                           ![sender] = SendInformation(@, to_agent_id, information).sa]
          /\ suspended' = Some([from_agent_id |-> from_agent_id,
                                to_agent_id |-> to_agent_id,
                                information |-> information,
                                receiver |-> receiver])
    /\ last' = Call("mediate_communication", from_agent_id, to_agent_id, "suspended")
    /\ UNCHANGED <<now, active_sub_agents, communication_authorizations, event_log,
                   retired_ids, ctor_args, profile, validation, returned>>

\* The suspended call resumes with the brokers' answers: the rest of
\* validate_inbound, of receive_information and of mediate_communication.
ResumeMediate ==
    /\ suspended # None
    /\ Len(event_log) < MaxEvents
    /\ LET call == Val(suspended)
           receiver == agents[call.receiver]
           is_valid == ValidateInboundFor(receiver.trust_profile, call.from_agent_id,
                                          call.information)
       IN /\ agents' = [agents EXCEPT ![call.receiver] =
                 IF is_valid
                 THEN LogActivity([receiver EXCEPT
                                       !.local_state = DictSet(@, now, call.information)],
                                  "Accepted information")
                 ELSE LogActivity(receiver,
                                  "Rejected information - trust validation failed")]
          /\ event_log' = Append(event_log,
                 IF is_valid
                 THEN "Communication mediated - success: True"
                 ELSE "Communication mediated - success: False")
          /\ last' = Call("mediate_communication", call.from_agent_id, call.to_agent_id,
                          Bool(is_valid))
    /\ suspended' = None
    /\ UNCHANGED <<now, active_sub_agents, communication_authorizations, retired_ids,
                   ctor_args, profile, validation, returned>>

\* Callers on one event loop, with brokers (any ITrustBroker) whose coroutines may
\* suspend: a mediation either runs through or waits at a broker while the loop
\* runs the other callers' operations.
AsyncNext ==
    \/ \E domain \in Domains : CreateSubAgent(FreshId, domain, None)
    \/ \E f \in KnownIds : \E t \in KnownIds \ {f} : AuthorizeCommunication(f, t, FALSE, None)
    \/ \E f \in KnownIds : \E t \in KnownIds \ {f}, information \in Information :
           MediateCommunication(f, t, information)
    \/ \E f \in KnownIds : \E t \in KnownIds \ {f}, information \in Information :
           BeginMediate(f, t, information)
    \/ ResumeMediate
    \/ \E agent_id \in KnownIds : RetireSubAgent(agent_id)

SpecAsync == Init /\ [][AsyncNext]_vars

-----------------------------------------------------------------------------
(* The read accessors.  What an accessor returns is a reference to a        *)
(* collection object: same_object says whether it is the very object the    *)
(* coordinator or unit keeps, in which case what the caller sees and changes *)
(* through it is that object, or another object, whose entries are content. *)

SameObject(collection) == [same_object |-> TRUE, content |-> collection]

\* collection.copy(): a new list or dict with the entries of collection
Copied(collection) == [same_object |-> FALSE, content |-> collection]

\* What the caller holds after `x = accessor()`, not yet changed by the caller.
Reference(accessor, unit, object) ==
    Some([accessor |-> accessor, unit |-> unit, mutated |-> FALSE] @@ object)

AccessFrame == UNCHANGED <<now, agents, active_sub_agents, communication_authorizations,
                           event_log, retired_ids, ctor_args, profile, validation,
                           suspended>>

\* FrontLineAgent.get_active_sub_agents()
GetActiveSubAgents ==
    /\ returned' = Reference("get_active_sub_agents", 0, Copied(active_sub_agents))
    /\ last' = Call("get_active_sub_agents", 0, 0, "dict")
    /\ AccessFrame

\* FrontLineAgent.get_event_log()
GetEventLog ==
    /\ returned' = Reference("get_event_log", 0, Copied(event_log))
    /\ last' = Call("get_event_log", 0, 0, "list")
    /\ AccessFrame

\* A caller holding unit u calls u.get_activity_log()
GetActivityLog(u) ==
    /\ returned' = Reference("get_activity_log", u, Copied(agents[u].activity_log))
    /\ last' = Call("get_activity_log", u, 0, "list")
    /\ AccessFrame

\* A caller holding unit u calls u.get_state_snapshot()
GetStateSnapshot(u) ==
    /\ returned' = Reference("get_state_snapshot", u, Copied(agents[u].local_state))
    /\ last' = Call("get_state_snapshot", u, 0, "dict")
    /\ AccessFrame

\* The collection an accessor reads: the private attribute it is the getter of.
Internal(ref) ==
    CASE ref.accessor = "get_active_sub_agents" -> active_sub_agents
      [] ref.accessor = "get_event_log" -> event_log
      [] ref.accessor = "get_activity_log" -> agents[ref.unit].activity_log
      [] ref.accessor = "get_state_snapshot" -> agents[ref.unit].local_state

\* The entries the caller finds in the collection it holds.
Seen(ref) == IF ref.same_object THEN Internal(ref) ELSE ref.content

IsList(ref) == ref.accessor \in {"get_event_log", "get_activity_log"}

\* What a caller does to a list or dict it was handed: add an entry, remove one,
\* replace one.
Changes == {"add", "remove", "replace"}

\* A value no coordinator or unit ever stores: a text in a log or a local state,
\* no object in the active map.
Forged(ref) == IF ref.accessor = "get_active_sub_agents" THEN 0 ELSE "forged"

\* x.append(v) / x[k] = v for a new k; x.pop() / x.popitem(); x[0] = v / x[k] = v
Changed(ref, collection, change) ==
    IF IsList(ref)
    THEN CASE change = "add" -> Append(collection, Forged(ref))
           [] change = "remove" -> SubSeq(collection, 1, Len(collection) - 1)
           [] change = "replace" -> [collection EXCEPT ![1] = Forged(ref)]
    ELSE CASE change = "add" -> DictSet(collection, -1, Forged(ref))
           [] change = "remove" -> collection \ {CHOOSE p \in collection : TRUE}
           [] change = "replace" ->
                  DictSet(collection, (CHOOSE p \in collection : TRUE)[1], Forged(ref))

\* The caller changes the collection it holds; when that is the very object the
\* coordinator or unit keeps, it is their attribute that changes.
MutateReturned(change) ==
    /\ returned # None
    /\ ~Val(returned).mutated
    /\ LET ref == Val(returned)
           changed == Changed(ref, Seen(ref), change)
       IN /\ change = "add" \/ (IF IsList(ref) THEN Seen(ref) # <<>> ELSE Seen(ref) # {})
          /\ IF ~ref.same_object
             THEN /\ returned' = Some([ref EXCEPT !.content = changed, !.mutated = TRUE])
                  /\ UNCHANGED <<agents, active_sub_agents, event_log>>
             ELSE /\ returned' = Some([ref EXCEPT !.mutated = TRUE])
                  /\ active_sub_agents' =
                         IF ref.accessor = "get_active_sub_agents" THEN changed
                         ELSE active_sub_agents
                  /\ event_log' =
                         IF ref.accessor = "get_event_log" THEN changed ELSE event_log
                  /\ agents' =
                         IF ref.accessor = "get_activity_log"
                         THEN [agents EXCEPT ![ref.unit].activity_log = changed]
                         ELSE IF ref.accessor = "get_state_snapshot"
                         THEN [agents EXCEPT ![ref.unit].local_state = changed]
                         ELSE agents
          /\ last' = Call("mutate", ref.unit, 0, change)
    /\ UNCHANGED <<now, communication_authorizations, retired_ids, ctor_args, profile,
                   validation, suspended>>

\* The coordinator and callers that read through the accessors, change what they
\* were handed and go on calling the coordinator.
AccessNext ==
    \/ \E domain \in Domains : CreateSubAgent(FreshId, domain, None)
    \/ \E f \in KnownIds : \E t \in KnownIds \ {f} : AuthorizeCommunication(f, t, TRUE, None)
    \/ \E f \in KnownIds : \E t \in KnownIds \ {f} : MediateCommunication(f, t, "data")
    \/ \E agent_id \in KnownIds : RetireSubAgent(agent_id)
    \/ GetActiveSubAgents
    \/ GetEventLog
    \/ \E u \in 1..Len(agents) : GetActivityLog(u)
    \/ \E u \in 1..Len(agents) : GetStateSnapshot(u)
    \/ \E change \in Changes : MutateReturned(change)

SpecAccess == Init /\ [][AccessNext]_vars

-----------------------------------------------------------------------------
(* create_sub_agent statement by statement.  The coordinator holds no lock, *)
(* so between its registration of the unit and the awaited start_mission    *)
(* the operations of other callers (another thread of the host, or the      *)
(* event loop at the await) may run and read the active map.                *)

\* create_sub_agent up to `await sub_agent.start_mission()`: the unit is constructed
\* and registered, its mission not yet started.
BeginCreate(agent_id, domain, trust_profile) ==
    /\ suspended = None
    /\ Len(event_log) < MaxEvents
    /\ LET tp == IF trust_profile = None THEN DefaultTrustProfile ELSE Val(trust_profile)
       IN agents' = Append(agents, SubAgent(agent_id, domain, tp))
    /\ active_sub_agents' = DictSet(active_sub_agents, agent_id, Len(agents) + 1)
    /\ suspended' = Some([agent_id |-> agent_id, sub_agent |-> Len(agents) + 1])
    /\ last' = Call("create_sub_agent", agent_id, 0, "suspended")
    /\ UNCHANGED <<now, communication_authorizations, event_log, retired_ids, ctor_args,
                   profile, validation, returned>>

\* The rest of create_sub_agent: start_mission on the object the call holds, which
\* raises if the unit is no longer CREATED, then the event and the return.
ResumeCreate ==
    /\ suspended # None
    /\ Len(event_log) < MaxEvents
    /\ LET call == Val(suspended)
       IN IF StartMissionRaises(agents[call.sub_agent])
          THEN /\ last' = Call("create_sub_agent", call.agent_id, 0, "raised")
               /\ UNCHANGED <<agents, event_log>>
          ELSE /\ agents' = [agents EXCEPT ![call.sub_agent] = StartMission(@)]
               /\ event_log' = Append(event_log, "Created and started SubAgent")
               /\ last' = Call("create_sub_agent", call.agent_id, 0, "unit")
    /\ suspended' = None
    /\ UNCHANGED <<now, active_sub_agents, communication_authorizations, retired_ids,
                   ctor_args, profile, validation, returned>>

\* Callers of one coordinator, one of them possibly inside create_sub_agent.
CreateNext ==
    \/ \E domain \in Domains : BeginCreate(FreshId, domain, None)
    \/ ResumeCreate
    \/ \E f \in KnownIds : \E t \in KnownIds \ {f} : AuthorizeCommunication(f, t, FALSE, None)
    \/ \E f \in KnownIds : \E t \in KnownIds \ {f}, information \in Information :
           MediateCommunication(f, t, information)
    \/ \E agent_id \in KnownIds : RetireSubAgent(agent_id)
    \/ GetActiveSubAgents

SpecCreate == Init /\ [][CreateNext]_vars

\* SecurityLevel
SecurityLevels == {"PUBLIC", "INTERNAL", "CONFIDENTIAL", "SECRET", "TOP_SECRET"}

\* The default profile's brokers and thresholds under another security level.
ProfileAt(security_level) == [DefaultTrustProfile EXCEPT !.security_level = security_level]

\* The coordinator with units created under profiles of every security level, and
\* the holders of the units, who send through them and complete their missions.
LevelsNext ==
    \/ \E domain \in Domains, security_level \in SecurityLevels :
           /\ Len(agents) < MaxLevelUnits
           /\ CreateSubAgent(FreshId, domain, Some(ProfileAt(security_level)))
    \/ \E f \in KnownIds : \E t \in KnownIds \ {f} : AuthorizeCommunication(f, t, FALSE, None)
    \/ \E f \in KnownIds : \E t \in KnownIds \ {f} : MediateCommunication(f, t, "data")
    \/ \E u \in 1..Len(agents) : CallSendInformation(u, 0, "data")
    \/ \E u \in 1..Len(agents) : ~CompleteMissionRaises(agents[u]) /\ CallCompleteMission(u)

SpecLevels == Init /\ [][LevelsNext]_vars

-----------------------------------------------------------------------------
(* Properties of validate_inbound, checked under SpecTrust. *)

Brokers == profile.trust_brokers

SenderScores == [i \in 1..Len(Brokers) |-> Brokers[i].sender]

ContentScores == [i \in 1..Len(Brokers) |-> Brokers[i].content]

AnyFlag == \E i \in 1..Len(Brokers) : Brokers[i].flagged

Unflagged(brokers) == [i \in 1..Len(brokers) |-> [brokers[i] EXCEPT !.flagged = FALSE]]

AbsInt(x) == IF x < 0 THEN -x ELSE x

\* How many of scores differ from the mean of scores by at most tol = num/den.
CountNearMean(scores, tol) ==
    LET n == Len(scores)
        total == SeqSum(scores)
    IN Cardinality({i \in 1..n : AbsInt(n * scores[i] - total) * tol.den <= tol.num * n})

\* The mean of scores, clamped to [0, 1], is at least t = num/den.
ClampedMeanAtLeast(scores, t) ==
    LET n == Len(scores)
        total == SeqSum(scores)
    IN IF total < 0 THEN 0 >= t.num
       ELSE IF total > One * n THEN One * t.den >= t.num
       ELSE total * t.den >= t.num * n

Returned(b) == validation.called /\ ~validation.raised /\ validation.result = b

\* C1: veto dominance: when at least one broker of the profile flags the message,
\* validate_inbound returns false, whatever scores any broker would give and
\* wherever the flagging broker stands in the tuple.
VetoDominance ==
    (validation.called /\ AnyFlag) => Returned(FALSE)

\* C1 witness: only the last of three brokers flags, and without that flag the
\* same answers are accepted.
VetoDominanceWitness ==
    /\ validation.called
    /\ Len(Brokers) = 3
    /\ Brokers[3].flagged /\ ~Brokers[1].flagged /\ ~Brokers[2].flagged
    /\ ValidateInboundAnswers(profile, Unflagged(Brokers)).result
    /\ Returned(FALSE)

AcceptConditions ==
    /\ Len(Brokers) >= profile.minimum_broker_agreement
    /\ ~AnyFlag
    /\ CountNearMean(SenderScores, profile.agreement_tolerance)
           >= profile.minimum_broker_agreement
    /\ CountNearMean(ContentScores, profile.agreement_tolerance)
           >= profile.minimum_broker_agreement
    /\ ClampedMeanAtLeast(SenderScores, profile.required_trust_threshold.sender_trust)
    /\ ClampedMeanAtLeast(ContentScores, profile.required_trust_threshold.content_trust)

\* C2: validate_inbound returns true exactly when there are at least
\* minimum_broker_agreement brokers, none flags, at least minimum_broker_agreement
\* sender scores and as many content scores lie within agreement_tolerance of
\* their mean, and both clamped means reach the required threshold.
AcceptIffConditions ==
    validation.called =>
        /\ ~validation.raised
        /\ validation.result <=> AcceptConditions

\* C2 witness: sender scores [0.8, 0.82, 0.79], content scores [0.75, 0.77, 0.76],
\* tolerance 0.1, minimum agreement 2, threshold (0.6, 0.6): accepted.
ConvergentAcceptance ==
    /\ validation.called
    /\ Brokers = ConvergentBrokers
    /\ profile.agreement_tolerance = OfInt(100)
    /\ profile.minimum_broker_agreement = 2
    /\ profile.required_trust_threshold = TrustLevel(OfInt(600), OfInt(600))
    /\ Returned(TRUE)

\* C3: agreement floor: when fewer than minimum_broker_agreement sender scores, or
\* fewer than minimum_broker_agreement content scores, lie within
\* agreement_tolerance of their mean, validate_inbound returns false.
AgreementFloor ==
    (/\ validation.called
     /\ Len(Brokers) >= 1
     /\ \/ CountNearMean(SenderScores, profile.agreement_tolerance)
               < profile.minimum_broker_agreement
        \/ CountNearMean(ContentScores, profile.agreement_tolerance)
               < profile.minimum_broker_agreement)
    => Returned(FALSE)

\* C3 witness: sender scores [0.9, 0.1, 0.5], tolerance 0.1, minimum agreement 2:
\* one score within 0.1 of the mean 0.5; nothing flags, the content scores agree
\* and both means meet the threshold, and the message is rejected.
AgreementFloorWitness ==
    /\ validation.called
    /\ Brokers = DivergentBrokers
    /\ profile.agreement_tolerance = OfInt(100)
    /\ profile.minimum_broker_agreement = 2
    /\ CountNearMean(SenderScores, profile.agreement_tolerance) = 1
    /\ CountNearMean(ContentScores, profile.agreement_tolerance) = 3
    /\ ClampedMeanAtLeast(SenderScores, profile.required_trust_threshold.sender_trust)
    /\ ClampedMeanAtLeast(ContentScores, profile.required_trust_threshold.content_trust)
    /\ Returned(FALSE)

\* The thresholds a rejected profile is re-validated under.
RaisedThresholds == {-100, 0, 500, 600, 900, 1200}

WithThreshold(s, c) ==
    [profile EXCEPT !.required_trust_threshold = TrustLevel(OfInt(s), OfInt(c))]

\* The threshold (s, c), clamped, is pointwise at least the required one.
AtLeastAsStrict(s, c) ==
    /\ RatLeq(profile.required_trust_threshold.sender_trust, Clamp01(OfInt(s)))
    /\ RatLeq(profile.required_trust_threshold.content_trust, Clamp01(OfInt(c)))

\* C4: threshold monotonicity: with the brokers' answers, the minimum agreement and
\* the tolerance fixed, a message rejected under the required threshold (s, c) is
\* rejected under every threshold (s2, c2) with s2 >= s and c2 >= c.
ThresholdMonotonicity ==
    Returned(FALSE) =>
        \A s2 \in RaisedThresholds, c2 \in RaisedThresholds :
            AtLeastAsStrict(s2, c2) =>
                ~ValidateInboundAnswers(WithThreshold(s2, c2), Brokers).result

\* C4 witness: a message rejected for its threshold alone (the threshold (0, 0)
\* accepts it), with a strictly higher threshold to raise it to.
ThresholdMonotonicityWitness ==
    /\ Returned(FALSE)
    /\ ValidateInboundAnswers(WithThreshold(0, 0), Brokers).result
    /\ \E s2 \in RaisedThresholds :
           /\ AtLeastAsStrict(s2, 1000)
           /\ ~RatGeq(profile.required_trust_threshold.sender_trust, OfInt(s2))

\* C5: fail closed on under-provisioning: the minimum agreement of a constructed
\* profile is at least 2, and with fewer brokers than it (so with no broker or one
\* broker, whatever minimum the profile was configured with) validate_inbound
\* returns false, raises nothing and queries no broker.
FailClosedUnderProvisioned ==
    /\ profile.constructed => profile.minimum_broker_agreement >= 2
    /\ (/\ validation.called
        /\ \/ Len(Brokers) < profile.minimum_broker_agreement
           \/ Len(Brokers) <= 1)
       => (Returned(FALSE) /\ validation.queries = <<>>)

\* C5 witness: a profile configured with minimum agreement 1 and one broker that
\* does not flag and whose scores meet the threshold; it rejects without a query.
FailClosedWitness ==
    /\ validation.called
    /\ ctor_args.minimum_broker_agreement = 1
    /\ Len(Brokers) = 1
    /\ ~Brokers[1].flagged
    /\ ClampedMeanAtLeast(SenderScores, profile.required_trust_threshold.sender_trust)
    /\ ClampedMeanAtLeast(ContentScores, profile.required_trust_threshold.content_trust)
    /\ Returned(FALSE)
    /\ validation.queries = <<>>

\* The scores one broker's answer is changed to.
ChangedScores == {0, 500, 900, 1000}

\* The brokers' answers with those of broker i changed to (s, c), its flag kept.
WithScores(i, s, c) == [Brokers EXCEPT ![i].sender = s, ![i].content = c]

ScoresInUnitRange ==
    \A i \in 1..Len(Brokers) :
        Brokers[i].sender \in 0..One /\ Brokers[i].content \in 0..One

\* C19: a single evaluator cannot inflate trust alone: when validate_inbound rejects
\* (all scores in [0, 1]), it also rejects with the scores of any one broker changed
\* to any other values in [0, 1], the flags and the other brokers' scores fixed.
NoSoloInflation ==
    (Returned(FALSE) /\ ScoresInUnitRange) =>
        \A i \in 1..Len(Brokers) : \A s \in ChangedScores, c \in ChangedScores :
            ~ValidateInboundAnswers(profile, WithScores(i, s, c)).result

ScoreQueries == {"evaluate_sender_trust", "evaluate_content_trust"}

\* C29: two-phase querying: in the calls validate_inbound makes, every is_flagged
\* comes before every request for a score, whichever brokers they go to; so when
\* some broker flags, no broker has been asked for a score.
FlagsBeforeScores ==
    validation.called =>
        LET q == validation.queries
        IN /\ \A i \in 1..Len(q), j \in 1..Len(q) :
                  (q[i][2] = "is_flagged" /\ q[j][2] \in ScoreQueries) => i < j
           /\ AnyFlag => \A j \in 1..Len(q) : q[j][2] \notin ScoreQueries

\* The brokers' answers in the order p, a permutation of their positions.
Permuted(p) == [i \in 1..Len(Brokers) |-> Brokers[p[i]]]

\* The sequences the brokers' answers make in every order they can be given in.
BrokerOrders == {Permuted(p) : p \in Permutations(1..Len(Brokers))}

\* C30: order independence: validate_inbound returns the same (and raises or not
\* the same) for every order in which the profile's brokers are given.
OrderIndependence ==
    validation.called =>
        \A brokers \in BrokerOrders :
            LET permuted == ValidateInboundAnswers(profile, brokers)
            IN /\ permuted.result = validation.result
               /\ permuted.raised = validation.raised

\* C30 witness: three brokers whose sender scores all differ and of which only the
\* second flags were asked: every other order is another sequence, with the flag met
\* earlier or later, and the message is rejected; without the flag it is accepted.
OrderIndependenceWitness ==
    /\ Returned(FALSE)
    /\ Len(Brokers) = 3
    /\ Cardinality({SenderScores[i] : i \in 1..3}) = 3
    /\ Brokers[2].flagged /\ ~Brokers[1].flagged /\ ~Brokers[3].flagged
    /\ ValidateInboundAnswers(profile, Unflagged(Brokers)).result

-----------------------------------------------------------------------------
(* Properties of the coordinator, checked under Spec. *)

Auths == communication_authorizations

Mediated == last.op = "mediate_communication"

LastEvent == event_log[Len(event_log)]

NotAuthorizedLogged == LastEvent = "Communication blocked - not authorized"

\* Grant i joins x and y, in one direction or the other.
Between(i, x, y) ==
    \/ Auths[i].from_agent_id = x /\ Auths[i].to_agent_id = y
    \/ Auths[i].from_agent_id = y /\ Auths[i].to_agent_id = x

\* Grant i is the one unexpired grant between x and y: every other grant between them
\* has expired.
OnlyUnexpiredBetween(i, x, y) ==
    /\ Between(i, x, y)
    /\ ~IsExpired(Auths[i], now)
    /\ \A j \in 1..Len(Auths) : (j # i /\ Between(j, x, y)) => IsExpired(Auths[j], now)

\* C6: grant directionality: with one unexpired grant from A to B (A # B),
\* mediate_communication(A, B, *) passes the authorization check, and
\* mediate_communication(B, A, *) passes it exactly when the grant is
\* bidirectional; when it does not, the call returns false and logs
\* 'not authorized'.
GrantDirectionality ==
    (Mediated /\ last.a # last.b) =>
        \A i \in 1..Len(Auths) :
            OnlyUnexpiredBetween(i, last.a, last.b) =>
                IF Auths[i].from_agent_id = last.a
                THEN ~NotAuthorizedLogged
                ELSE /\ Auths[i].is_bidirectional <=> ~NotAuthorizedLogged
                     /\ ~Auths[i].is_bidirectional =>
                            (last.ret = "False" /\ NotAuthorizedLogged)

\* C6 witness: two registered units, one unexpired one-way grant between them, and a
\* call against its direction, blocked as not authorized.
GrantDirectionalityWitness ==
    /\ Mediated
    /\ DictHas(active_sub_agents, last.a) /\ DictHas(active_sub_agents, last.b)
    /\ \E i \in 1..Len(Auths) :
           /\ OnlyUnexpiredBetween(i, last.a, last.b)
           /\ Auths[i].from_agent_id = last.b
           /\ ~Auths[i].is_bidirectional
    /\ last.ret = "False"
    /\ NotAuthorizedLogged

\* C7: grant expiry: when every grant between the two parties of a
\* mediate_communication call was created with a ttl of zero or less, no grant is
\* matched: the call returns false and logs 'not authorized'.
GrantExpiry ==
    (/\ Mediated
     /\ \A i \in 1..Len(Auths) :
            Between(i, last.a, last.b) =>
                (Auths[i].ttl # None /\ Val(Auths[i].ttl) <= 0))
    => (last.ret = "False" /\ NotAuthorizedLogged)

\* C8: retirement purge: once retire_sub_agent(X) has retired X, every later
\* mediate_communication call with X as sender or receiver returns false, whatever
\* was authorized or created in between.
RetirementPurge ==
    (Mediated /\ (last.a \in retired_ids \/ last.b \in retired_ids))
    => last.ret = "False"

\* C8 witness: a grant naming a retired unit was authorized after its retirement, and
\* a call that this grant authorizes, from a registered active unit to the retired
\* one, returns false.
RetirementPurgeWitness ==
    /\ Mediated
    /\ last.b \in retired_ids
    /\ DictHas(active_sub_agents, last.a)
    /\ agents[DictGet(active_sub_agents, last.a)].status = "ACTIVE"
    /\ \E i \in 1..Len(Auths) : IsAuthorized(Auths[i], last.a, last.b, now)
    /\ LastEvent = "Communication failed: receiver not found"
    /\ last.ret = "False"

\* C9: no grant of the coordinator names, as from-id or to-id, a unit that
\* retire_sub_agent has retired.
NoGrantNamesRetired ==
    \A i \in 1..Len(Auths) :
        /\ Auths[i].from_agent_id \notin retired_ids
        /\ Auths[i].to_agent_id \notin retired_ids

-----------------------------------------------------------------------------
(* Properties of mediate_communication, checked under SpecHolder.  A step  *)
(* whose last' is a mediate_communication call is that call: the unprimed  *)
(* variables are the state it started in, the primed ones the state it     *)
(* returned in.                                                            *)

\* The grant is unexpired and matches (f, t).
GrantMatches(auth, f, t) ==
    /\ auth.expires_at = None \/ ~(now > Val(auth.expires_at))
    /\ \/ auth.from_agent_id = f /\ auth.to_agent_id = t
       \/ auth.is_bidirectional /\ auth.from_agent_id = t /\ auth.to_agent_id = f

SomeGrantMatches(f, t) == \E i \in 1..Len(Auths) : GrantMatches(Auths[i], f, t)

Registered(id) == \E p \in active_sub_agents : p[1] = id

\* The position in agents of the unit registered under id.
ObjectOf(id) == (CHOOSE p \in active_sub_agents : p[1] = id)[2]

SendLogged(u) ==
    agents'[u].activity_log = Append(agents[u].activity_log, "Sending information")

\* C13: mediate_communication returns true only if an unexpired grant matched
\* (from, to), both were registered, the sender was ACTIVE and its send_information
\* ran, the receiver was ACTIVE and its validate_inbound(from, content) was true;
\* and then the content is in the receiver's local state.
MediationSucceedsOnlyIf ==
    [][(last'.op = "mediate_communication" /\ last'.ret = "True") =>
          /\ SomeGrantMatches(last'.a, last'.b)
          /\ Registered(last'.a)
          /\ Registered(last'.b)
          /\ agents[ObjectOf(last'.a)].status = "ACTIVE"
          /\ SendLogged(ObjectOf(last'.a))
          /\ agents[ObjectOf(last'.b)].status = "ACTIVE"
          /\ \E information \in Information :
                 /\ ValidateInboundFor(agents[ObjectOf(last'.b)].trust_profile,
                                       last'.a, information)
                 /\ <<now, information>> \in agents'[ObjectOf(last'.b)].local_state]_vars

\* C13 witness: a call matched only by a bidirectional grant made the other way round
\* has returned true, and the receiver holds the content.
MediationSucceeded ==
    /\ Mediated
    /\ last.ret = "True"
    /\ LastEvent = "Communication mediated - success: True"
    /\ \A i \in 1..Len(Auths) : Auths[i].from_agent_id # last.a
    /\ SomeGrantMatches(last.a, last.b)
    /\ <<now, "data">> \in agents[ObjectOf(last.b)].local_state

\* C14: when no unexpired grant matches (from, to), mediate_communication returns
\* false, appends a 'not authorized' entry to the event log and leaves every unit
\* (status, local state, activity log), the active map and the grants unchanged,
\* whether or not from and to are registered.
UnauthorizedChangesNothing ==
    [][(last'.op = "mediate_communication" /\ ~SomeGrantMatches(last'.a, last'.b)) =>
          /\ last'.ret = "False"
          /\ event_log' = Append(event_log, "Communication blocked - not authorized")
          /\ agents' = agents
          /\ active_sub_agents' = active_sub_agents
          /\ communication_authorizations' = communication_authorizations]_vars

\* C14 witness: a call from an unregistered sender whose only grant has expired is
\* answered 'not authorized', not 'sender not found'.
UnauthorizedUnregistered ==
    /\ Mediated
    /\ last.ret = "False"
    /\ NotAuthorizedLogged
    /\ ~Registered(last.a)
    /\ Registered(last.b)
    /\ \E i \in 1..Len(Auths) :
           /\ Auths[i].from_agent_id = last.a /\ Auths[i].to_agent_id = last.b
           /\ IsExpired(Auths[i], now)

\* C15: sends are not transactional with receives: when the call passes the
\* authorization and existence checks and the sender is ACTIVE, the sender's log has
\* gained its send entry when the call returns, also when the receiver rejected and
\* the call returns false; and when the receiver is not registered no unit changes:
\* send_information has not run.
SendsAreNotTransactional ==
    [][(/\ last'.op = "mediate_communication"
        /\ SomeGrantMatches(last'.a, last'.b)
        /\ Registered(last'.a)) =>
          IF ~Registered(last'.b)
          THEN agents' = agents /\ last'.ret = "False"
          ELSE agents[ObjectOf(last'.a)].status = "ACTIVE" =>
                   SendLogged(ObjectOf(last'.a))]_vars

\* C15 witness: the receiver rejected the content on trust validation, the call
\* returned false, and the sender's log ends with the send.
SendSurvivesRejection ==
    /\ Mediated
    /\ last.ret = "False"
    /\ LastEvent = "Communication mediated - success: False"
    /\ Registered(last.a) /\ Registered(last.b)
    /\ LET sent == agents[ObjectOf(last.a)].activity_log
           received == agents[ObjectOf(last.b)].activity_log
       IN /\ sent[Len(sent)] = "Sending information"
          /\ received[Len(received)] = "Rejected information - trust validation failed"

\* The event-log entry of the cause for which a call from f to t is rejected.
RejectionEntry(f, t) ==
    IF ~SomeGrantMatches(f, t) THEN "Communication blocked - not authorized"
    ELSE IF ~Registered(f) THEN "Communication failed: sender not found"
    ELSE IF ~Registered(t) THEN "Communication failed: receiver not found"
    ELSE IF agents[ObjectOf(f)].status # "ACTIVE"
    THEN "Communication failed: sender rejected outbound"
    ELSE "Communication mediated - success: False"

\* C18: every rejection is audited: a mediate_communication call that returns false
\* has appended one entry to the event log, and the entry is the one of its cause:
\* missing authorization, unknown sender, unknown receiver, sender refusal, or
\* rejection by the receiver, each with an entry of its own.
EveryRejectionAudited ==
    [][(last'.op = "mediate_communication" /\ last'.ret = "False") =>
          event_log' = Append(event_log, RejectionEntry(last'.a, last'.b))]_vars

\* C18 witness: a registered sender whose mission its holder completed refuses to
\* send, and the log says so.
SenderRefusalAudited ==
    /\ Mediated
    /\ last.ret = "False"
    /\ LastEvent = "Communication failed: sender rejected outbound"
    /\ Registered(last.a) /\ Registered(last.b)
    /\ agents[ObjectOf(last.a)].status = "COMPLETED"

\* s is t or a proper beginning of t.
IsPrefix(s, t) == Len(s) <= Len(t) /\ SubSeq(t, 1, Len(s)) = s

Decisions == {"Accepted information", "Rejected information - trust validation failed",
              "Rejected inbound information - status"}

\* C24: the logs are append-only: over every operation the event log before is a
\* prefix of the event log after, and so is each unit's activity log; a unit whose
\* status changed has at least one more activity-log entry, and so has a unit whose
\* receive_information decided to accept or reject (called by its holder or, in a
\* mediation that got as far as the receiver, by the coordinator), the entry being
\* the decision.
LogsAppendOnly ==
    [][/\ IsPrefix(event_log, event_log')
       /\ \A u \in 1..Len(agents) :
              /\ IsPrefix(agents[u].activity_log, agents'[u].activity_log)
              /\ agents'[u].status # agents[u].status =>
                     Len(agents'[u].activity_log) > Len(agents[u].activity_log)
       /\ last'.op = "receive_information" =>
              /\ Len(agents'[last'.a].activity_log) = Len(agents[last'.a].activity_log) + 1
              /\ agents'[last'.a].activity_log[Len(agents'[last'.a].activity_log)]
                     \in Decisions
       /\ (/\ last'.op = "mediate_communication"
           /\ event_log'[Len(event_log')] \in {"Communication mediated - success: True",
                                                "Communication mediated - success: False"})
              => LET before == agents[ObjectOf(last'.b)].activity_log
                     after == agents'[ObjectOf(last'.b)].activity_log
                 IN Len(after) = Len(before) + 1 /\ after[Len(after)] \in Decisions]_vars

\* C24 witness: a mediation reached a receiver its holder had completed: the
\* receiver's log holds the completion and, after it, the rejection, and the event
\* log ends with the failed mediation.
CompletedReceiverLogsRejection ==
    /\ Mediated
    /\ LastEvent = "Communication mediated - success: False"
    /\ Registered(last.b)
    /\ agents[ObjectOf(last.b)].status = "COMPLETED"
    /\ agents[ObjectOf(last.b)].activity_log =
           <<"SubAgent created", "Mission started", "Mission completed",
             "Rejected inbound information - status">>

-----------------------------------------------------------------------------
(* Properties of the coordinator under repeated ids (SpecCollide) and      *)
(* under concurrent callers (SpecAsync).                                   *)

\* C16: create_sub_agent guarantees id uniqueness: when the generated id is that of
\* a unit registered in the active map, the call fails and that unit stays
\* registered and unmodified; a create never replaces an entry of the active map.
CreateNeverOverwrites ==
    [][(last'.op = "create_sub_agent" /\ Registered(last'.a)) =>
          /\ last'.ret = "raised"
          /\ (CHOOSE p \in active_sub_agents' : p[1] = last'.a)[2] = ObjectOf(last'.a)
          /\ agents'[ObjectOf(last'.a)] = agents[ObjectOf(last'.a)]]_vars

\* C17: coordinator operations are mutually exclusive: while a coordinator operation
\* is between its first and its last step, no other coordinator operation begins:
\* the next step is the waiting operation's own.
CoordinatorMutualExclusion ==
    [][suspended # None =>
          /\ suspended' = None
          /\ last'.op = "mediate_communication"
          /\ last'.a = Val(suspended).from_agent_id
          /\ last'.b = Val(suspended).to_agent_id]_vars

-----------------------------------------------------------------------------
(* Properties of one SubAgent, checked under SpecUnit. *)

\* C10: process_task is legal only in status ACTIVE: in any other status it raises
\* and leaves the unit (status, local state, activity log) as it was; in ACTIVE it
\* returns a result and the status stays ACTIVE.
ProcessTaskLegality ==
    [][last'.op = "process_task" =>
          IF agents[last'.a].status = "ACTIVE"
          THEN last'.ret = "result" /\ agents'[last'.a].status = "ACTIVE"
          ELSE last'.ret = "raised" /\ agents'[last'.a] = agents[last'.a]]_vars

\* C10 witness: process_task called before start_mission, on a unit still CREATED,
\* has raised.
ProcessTaskBeforeStart ==
    /\ last.op = "process_task"
    /\ last.ret = "raised"
    /\ agents[last.a].status = "CREATED"
    /\ agents[last.a].activity_log = <<"SubAgent created">>

\* C11: RETIRED is terminal and inert: once a unit is RETIRED, after any further
\* operation on it its status is still RETIRED and its local state still empty;
\* start_mission, process_task and complete_mission raise, receive_information and
\* send_information return false, and retire changes nothing.
RetiredIsInert ==
    [][\A u \in 1..Len(agents) :
          agents[u].status = "RETIRED" =>
              /\ agents'[u].status = "RETIRED"
              /\ agents'[u].local_state = {}
              /\ (last'.a = u /\ last'.op \in {"start_mission", "process_task",
                                                "complete_mission"})
                     => last'.ret = "raised"
              /\ (last'.a = u /\ last'.op \in {"receive_information", "send_information"})
                     => last'.ret = "False"
              /\ (last'.a = u /\ last'.op = "retire") => agents'[u] = agents[u]]_vars

\* C11 witness: a unit that accepted information while ACTIVE and was retired since
\* is sent information again: it returns false and its local state stays empty.
RetiredRejectsInbound ==
    /\ last.op = "receive_information"
    /\ last.ret = "False"
    /\ agents[last.a].status = "RETIRED"
    /\ agents[last.a].local_state = {}
    /\ \E i \in 1..Len(agents[last.a].activity_log) :
           agents[last.a].activity_log[i] = "Accepted information"

\* C12: idempotent retirement: retire() never raises; on a unit already RETIRED it
\* changes nothing (status, local state and activity log), and from any other
\* status it leaves the unit RETIRED with an empty local state.
IdempotentRetirement ==
    [][last'.op = "retire" =>
          /\ last'.ret = "None"
          /\ IF agents[last'.a].status = "RETIRED"
             THEN agents'[last'.a] = agents[last'.a]
             ELSE /\ agents'[last'.a].status = "RETIRED"
                  /\ agents'[last'.a].local_state = {}]_vars

\* C12 witness: retire() has returned on a unit that was RETIRED before the call: the
\* last entry of its log is a rejection logged after its retirement, not a
\* retirement entry.
RetireAgainWitness ==
    /\ last.op = "retire"
    /\ last.ret = "None"
    /\ agents[last.a].status = "RETIRED"
    /\ LET log == agents[last.a].activity_log
       IN /\ log[Len(log)] = "Rejected inbound information - status"
          /\ Cardinality({i \in 1..Len(log) : log[i] = "SubAgent retired"}) = 1

\* C20: start_mission is legal only from CREATED: from CREATED it returns and the
\* unit is ACTIVE; in any other status it raises and leaves the unit (status, local
\* state, activity log) as it was.
StartMissionLegality ==
    [][last'.op = "start_mission" =>
          IF agents[last'.a].status = "CREATED"
          THEN last'.ret = "None" /\ agents'[last'.a].status = "ACTIVE"
          ELSE last'.ret = "raised" /\ agents'[last'.a] = agents[last'.a]]_vars

\* C20 witness: a second start_mission on a unit that is ACTIVE has raised.
SecondStartRaises ==
    /\ last.op = "start_mission"
    /\ last.ret = "raised"
    /\ agents[last.a].status = "ACTIVE"
    /\ agents[last.a].activity_log = <<"SubAgent created", "Mission started">>

\* C21: receive_information on a unit that is not ACTIVE returns false without
\* raising and without a single broker call, whatever is sent and whoever sends it;
\* status and local state stay as they were and the activity log gains exactly one
\* entry, the rejection.
InactiveReceiveRejects ==
    [][(last'.op = "receive_information" /\ agents[last'.a].status # "ACTIVE") =>
          /\ last'.ret = "False"
          /\ \A information \in Information :
                 ReceiveInformation(agents[last'.a], last'.b, information, now).queries = <<>>
          /\ agents'[last'.a] =
                 [agents[last'.a] EXCEPT !.activity_log =
                      Append(@, "Rejected inbound information - status")]]_vars

\* C21 witness: information sent to a unit still CREATED has been rejected: the unit
\* is CREATED, holds nothing, and its log is its creation followed by the rejection.
CreatedRejectsInbound ==
    /\ last.op = "receive_information"
    /\ last.ret = "False"
    /\ agents[last.a].status = "CREATED"
    /\ agents[last.a].local_state = {}
    /\ agents[last.a].activity_log =
           <<"SubAgent created", "Rejected inbound information - status">>

\* C28: lifecycle conformance: a unit's status changes only from CREATED to ACTIVE
\* by start_mission, from ACTIVE or PAUSED to COMPLETED by complete_mission, and
\* from any status but RETIRED to RETIRED by retire; so nothing takes COMPLETED,
\* FAILED or RETIRED back to ACTIVE.  complete_mission on a unit that is CREATED,
\* COMPLETED, FAILED or RETIRED raises and leaves the unit as it was.
LifecycleConformance ==
    [][/\ \A u \in 1..Len(agents) :
              agents'[u].status # agents[u].status =>
                  /\ last'.a = u
                  /\ \/ /\ last'.op = "start_mission"
                        /\ agents[u].status = "CREATED"
                        /\ agents'[u].status = "ACTIVE"
                     \/ /\ last'.op = "complete_mission"
                        /\ agents[u].status \in {"ACTIVE", "PAUSED"}
                        /\ agents'[u].status = "COMPLETED"
                     \/ /\ last'.op = "retire"
                        /\ agents[u].status # "RETIRED"
                        /\ agents'[u].status = "RETIRED"
       /\ (/\ last'.op = "complete_mission"
           /\ agents[last'.a].status \in {"CREATED", "COMPLETED", "FAILED", "RETIRED"})
              => (last'.ret = "raised" /\ agents'[last'.a] = agents[last'.a])]_vars

\* C28 witness: a second complete_mission, on a unit already COMPLETED, has raised
\* and the unit is as the first left it.
SecondCompleteRaises ==
    /\ last.op = "complete_mission"
    /\ last.ret = "raised"
    /\ agents[last.a].status = "COMPLETED"
    /\ agents[last.a].activity_log =
           <<"SubAgent created", "Mission started", "Mission completed">>

-----------------------------------------------------------------------------
(* Properties of the coordinator's registry and grant collection, checked  *)
(* under Spec.                                                              *)

Count(log, entry) == Cardinality({i \in 1..Len(log) : log[i] = entry})

\* C22: process_user_task never cleans up: when the call is over, whether it
\* returned a result or raised, the unit it created is registered and not RETIRED,
\* COMPLETED when a result was returned; a failure is logged once, as the last event,
\* and raised; the active map holds what it held plus that one unit, and no other
\* unit has changed.
ProcessUserTaskLeavesUnit ==
    [][last'.op = "process_user_task" =>
          /\ ~DictHas(active_sub_agents, last'.a)
          /\ active_sub_agents' = active_sub_agents \cup {<<last'.a, Len(agents')>>}
          /\ Len(agents') = Len(agents) + 1
          /\ SubSeq(agents', 1, Len(agents)) = agents
          /\ agents'[Len(agents')].status # "RETIRED"
          /\ last'.ret \in {"result", "raised"}
          /\ last'.ret = "result" =>
                 /\ agents'[Len(agents')].status = "COMPLETED"
                 /\ Count(event_log', "Task processing failed")
                        = Count(event_log, "Task processing failed")
          /\ last'.ret = "raised" =>
                 /\ event_log'[Len(event_log')] = "Task processing failed"
                 /\ Count(event_log', "Task processing failed")
                        = Count(event_log, "Task processing failed") + 1]_vars

\* C22 witness: process_user_task has returned its result with a unit registered
\* before it: the active map holds both, the new one COMPLETED with its three log
\* entries after creation, the older one still ACTIVE.
TaskUnitStaysRegistered ==
    /\ last.op = "process_user_task"
    /\ last.ret = "result"
    /\ Cardinality(active_sub_agents) = 2
    /\ DictHas(active_sub_agents, last.a)
    /\ agents[DictGet(active_sub_agents, last.a)].status = "COMPLETED"
    /\ agents[DictGet(active_sub_agents, last.a)].activity_log =
           <<"SubAgent created", "Mission started", "Processing task", "Task completed",
             "Mission completed">>
    /\ \E p \in active_sub_agents : p[1] # last.a /\ agents[p[2]].status = "ACTIVE"

\* C25: grants accumulate: authorize_communication appends exactly one grant, for
\* the pair it was given, and keeps every grant there was, in place, equal ones
\* included; mediate_communication leaves the collection alone and passes the
\* authorization check whenever some grant, at any position, is unexpired and
\* matches (from, to), whatever the grants before it are.
GrantsAccumulate ==
    [][/\ last'.op = "authorize_communication" =>
              /\ Len(Auths') = Len(Auths) + 1
              /\ SubSeq(Auths', 1, Len(Auths)) = Auths
              /\ Auths'[Len(Auths')].from_agent_id = last'.a
              /\ Auths'[Len(Auths')].to_agent_id = last'.b
       /\ last'.op = "mediate_communication" =>
              /\ Auths' = Auths
              /\ SomeGrantMatches(last'.a, last'.b) =>
                     event_log'[Len(event_log')] # "Communication blocked - not authorized"]_vars

\* C25 witness: a mediation from x to y passed the authorization check on the
\* strength of a later grant: the first grant from x to y has expired and is
\* still first in the collection.
LaterGrantAuthorizes ==
    /\ Mediated
    /\ ~NotAuthorizedLogged
    /\ Len(Auths) >= 2
    /\ Auths[1].from_agent_id = last.a /\ Auths[1].to_agent_id = last.b
    /\ IsExpired(Auths[1], now)
    /\ \E i \in 2..Len(Auths) : GrantMatches(Auths[i], last.a, last.b)

\* C26: a grant whose expiry is at or before the clock reading is inert: it
\* authorizes no pair, its own included, at every reading now >= expiry, the
\* reading now = expiry among them, while it stays in the collection.
ExpiredGrantsInert ==
    \A i \in 1..Len(Auths) :
        (Auths[i].expires_at # None /\ Val(Auths[i].expires_at) <= now) =>
            \A f \in KnownIds, t \in KnownIds : ~IsAuthorized(Auths[i], f, t, now)

\* The grants of auths that name id, as from or as to.
Naming(auths, id) ==
    {i \in 1..Len(auths) : auths[i].from_agent_id = id \/ auths[i].to_agent_id = id}

\* C27: retire_sub_agent on an id that is not registered returns without raising
\* and changes nothing: the active map, the grants (those naming the id too), the
\* event log and every unit are as before.  On a registered id it removes that
\* entry and no other from the map, leaves that unit RETIRED with an empty local
\* state and every other unit as it was, and removes the grants naming the id and
\* no others, the rest keeping their order.
RetireSubAgentExact ==
    [][last'.op = "retire_sub_agent" =>
          /\ last'.ret = "None"
          /\ IF ~Registered(last'.a)
             THEN /\ active_sub_agents' = active_sub_agents
                  /\ Auths' = Auths
                  /\ event_log' = event_log
                  /\ agents' = agents
             ELSE /\ active_sub_agents' = {p \in active_sub_agents : p[1] # last'.a}
                  /\ agents'[ObjectOf(last'.a)].status = "RETIRED"
                  /\ agents'[ObjectOf(last'.a)].local_state = {}
                  /\ Len(agents') = Len(agents)
                  /\ \A u \in 1..Len(agents) :
                         u # ObjectOf(last'.a) => agents'[u] = agents[u]
                  /\ Naming(Auths', last'.a) = {}
                  /\ Len(Auths') = Len(Auths) - Cardinality(Naming(Auths, last'.a))
                  /\ \A i \in 1..Len(Auths) \ Naming(Auths, last'.a) :
                         Auths'[i - Cardinality({j \in Naming(Auths, last'.a) : j < i})]
                             = Auths[i]]_vars

\* C27 witness: retire_sub_agent has returned on an id that was not registered, a
\* unit retired earlier: a grant naming the id, made since its retirement, is still
\* in the collection and the last event is still that grant's.
UnknownRetireChangesNothing ==
    /\ last.op = "retire_sub_agent"
    /\ last.a \in retired_ids
    /\ Naming(Auths, last.a) # {}
    /\ LastEvent = "Authorized communication"
    /\ Cardinality(active_sub_agents) = 1

-----------------------------------------------------------------------------
(* Properties of the read accessors, checked under SpecAccess. *)

Accessors == {"get_active_sub_agents", "get_event_log", "get_activity_log",
              "get_state_snapshot"}

\* C23: the read accessors return defensive copies: what an accessor hands out has
\* the entries of the internal collection at the time of the call; a caller adding,
\* removing or replacing an entry in it changes no internal state of the coordinator
\* or of any unit; and no later operation of the coordinator changes the entries
\* of a collection handed out earlier.
DefensiveCopies ==
    [][/\ last'.op \in Accessors =>
              /\ Seen(Val(returned')) = Internal(Val(returned'))
              /\ UNCHANGED <<agents, active_sub_agents, event_log>>
       /\ last'.op = "mutate" =>
              UNCHANGED <<agents, active_sub_agents, communication_authorizations,
                          event_log>>
       /\ (returned # None /\ last'.op \notin Accessors \cup {"mutate"}) =>
              /\ returned' # None
              /\ (Seen(Val(returned)))' = Seen(Val(returned))]_vars

\* C23 witness: a caller took the state snapshot of a unit that had accepted
\* information and put an entry of its own in it; the unit was retired since.  The
\* unit's local state is empty, and the caller's dict holds what the unit had
\* accepted and the caller's entry.
SnapshotSurvivesRetirement ==
    /\ last.op = "retire_sub_agent"
    /\ returned # None
    /\ Val(returned).accessor = "get_state_snapshot"
    /\ Val(returned).mutated
    /\ Val(returned).unit = last.a
    /\ agents[last.a].local_state = {}
    /\ \E p \in Seen(Val(returned)) : p[2] = "data"
    /\ \E p \in Seen(Val(returned)) : p[2] = "forged"

-----------------------------------------------------------------------------
(* Properties of create_sub_agent among other callers, checked under       *)
(* SpecCreate.                                                              *)

\* C31: create_sub_agent starts the mission before it registers the unit: in every
\* state another operation of the coordinator can observe, the point where
\* create_sub_agent awaits start_mission included, every unit in the active map has
\* left CREATED; and when create_sub_agent returns, the unit is registered under
\* its id, is ACTIVE, carries the policy supplied or the default one, and the last
\* event is its creation.
RegisteredUnitsHaveStarted ==
    /\ \A p \in active_sub_agents : agents[p[2]].status # "CREATED"
    /\ (last.op = "create_sub_agent" /\ last.ret = "unit") =>
           /\ Registered(last.a)
           /\ agents[ObjectOf(last.a)].status = "ACTIVE"
           /\ agents[ObjectOf(last.a)].trust_profile = DefaultTrustProfile
           /\ LastEvent = "Created and started SubAgent"

-----------------------------------------------------------------------------
(* Properties of outbound sends, checked under SpecLevels. *)

\* The unit sa under the security level given, all else equal.
AtLevel(sa, security_level) == [sa EXCEPT !.trust_profile.security_level = security_level]

\* send_information on sa returns the same, ACTIVE or not, under every security
\* level, to every recipient and for every content.
SendIgnoresLevel(sa) ==
    \A security_level \in SecurityLevels, recipient_id \in PeerIds,
       information \in Information :
        SendInformation(AtLevel(sa, security_level), recipient_id, information).ret
            = (sa.status = "ACTIVE")

-----------------------------------------------------------------------------
(* Properties of a unit's local state, checked under SpecUnit. *)

\* The contents a unit holds.
Stored(sa) == {p[2] : p \in sa.local_state}

\* C33: local state holds only validated content: after every step, every value a
\* unit stores is a content its validate_inbound accepts from some sender, and the
\* unit's log holds an acceptance; receive_information returns true only on an
\* ACTIVE unit, for a content its validate_inbound accepted from that sender, which
\* it then stores; a receive_information that returns false leaves the local state
\* as it was.
LocalStateOnlyValidated ==
    [][/\ \A u \in 1..Len(agents') : \A information \in Stored(agents'[u]) :
              /\ \E sender_id \in 0..Len(agents') :
                     ValidateInboundFor(agents'[u].trust_profile, sender_id, information)
              /\ Count(agents'[u].activity_log, "Accepted information") >= 1
       /\ last'.op = "receive_information" =>
              IF last'.ret = "True"
              THEN /\ agents[last'.a].status = "ACTIVE"
                   /\ \E information \in Information :
                          /\ ValidateInboundFor(agents[last'.a].trust_profile, last'.b,
                                                information)
                          /\ agents'[last'.a].local_state =
                                 DictSet(agents[last'.a].local_state, now, information)
              ELSE agents'[last'.a].local_state = agents[last'.a].local_state]_vars

\* C33 witness: an ACTIVE unit that holds an accepted content was sent one its
\* validation rejects: the call returned false and the unit holds what it held.
RejectedContentNotStored ==
    /\ last.op = "receive_information"
    /\ last.ret = "False"
    /\ agents[last.a].status = "ACTIVE"
    /\ Stored(agents[last.a]) = {"data"}
    /\ LET log == agents[last.a].activity_log
       IN log[Len(log)] = "Rejected information - trust validation failed"

-----------------------------------------------------------------------------
(* Properties of retirement among suspended calls, checked under SpecAsync. *)

\* C34: with operations interleaving where a call waits for a broker, a RETIRED
\* unit never holds local state: in every state a unit whose status is RETIRED has
\* an empty local state, and no mediation has returned true with its receiver
\* RETIRED at the return.
RetiredHoldsNoState ==
    /\ \A u \in 1..Len(agents) :
           agents[u].status = "RETIRED" => agents[u].local_state = {}
    /\ (Mediated /\ last.ret = "True") => agents[last.b].status # "RETIRED"

-----------------------------------------------------------------------------
(* Further properties of a unit's local state, checked under SpecUnit. *)

\* C35: no accepted message is lost: a receive_information that returns true
\* leaves the unit with exactly one entry more in its local state and with every
\* entry it had, also when an earlier message was accepted at the same clock
\* reading.
NoAcceptedMessageLost ==
    [][(last'.op = "receive_information" /\ last'.ret = "True") =>
          /\ Cardinality(agents'[last'.a].local_state)
                 = Cardinality(agents[last'.a].local_state) + 1
          /\ agents[last'.a].local_state \subseteq agents'[last'.a].local_state]_vars

-----------------------------------------------------------------------------
(* Properties of the statuses in use, checked under Spec. *)

\* C36: the statuses PAUSED and FAILED are unreachable: whatever operations were
\* called, process_user_task among them, every unit's status is CREATED, ACTIVE,
\* COMPLETED or RETIRED.
PausedAndFailedUnreachable ==
    \A u \in 1..Len(agents) :
        agents[u].status \in {"CREATED", "ACTIVE", "COMPLETED", "RETIRED"}

\* C36 witness: process_user_task has returned after a unit was created and
\* retired: the units made so far are one RETIRED and one COMPLETED.
TaskDoneBesideRetiredUnit ==
    /\ last.op = "process_user_task"
    /\ Len(agents) = 2
    /\ {agents[u].status : u \in 1..Len(agents)} = {"RETIRED", "COMPLETED"}

-----------------------------------------------------------------------------
(* Properties of the active map among the holders of units, checked under  *)
(* SpecHolder.                                                              *)

\* C37: the active map never contains a RETIRED unit: in every state, also after a
\* caller has called retire() on a unit it holds, every unit registered in the
\* active map has a status other than RETIRED.
NoRetiredUnitRegistered ==
    \A p \in active_sub_agents : agents[p[2]].status # "RETIRED"

====
